---- MODULE Spec2Model ----
(***************************************************************************)
(* Layer registration of the Hydra loop-closure module: registerDsgLayer   *)
(* (correspondence matching under the caller's mutexes, point-matrix       *)
(* construction, threshold checks, the robust solver, inlier mapping).     *)
(*                                                                         *)
(* Spec     : one call of registerDsgLayer by one thread, over all inputs  *)
(*            and all solver outcomes (no mutexes supplied).               *)
(* SpecConc : two threads calling registerDsgLayer with the layers'        *)
(*            mutexes supplied, next to the graph's updater thread, which  *)
(*            deletes nodes while holding the layer's mutex.               *)
(* FairConc : SpecConc with weak fairness on every thread's next step.     *)
(***************************************************************************)
EXTENDS Integers, Sequences, FiniteSets

\* ------------------------------------------------------------------ bounds
\* longest inlier list the solver reports
MaxInliers == 2
\* largest threshold value tried for min_correspondences / min_inliers
MaxThreshold == 2
\* how many nodes the updater thread deletes
MaxDeletes == 1
\* calls made one after the other with the same solver
MaxCalls == 2
\* images delivered to the MaskNodelet
MaxCallbacks == 2

\* ------------------------------------------------------- the scene graph
Layers == {"L1", "L2"}
NodeIds == {1, 2, 3}
Null == "null"
Threads == {"A", "B"}
NoOwner == "none"

\* std::mutex* of a problem: the graph owns one mutex per layer
MutexOf(l) == l

\* SceneGraphNode::attributes<SemanticNodeAttributes>(): node 3 of any layer
\* carries attributes of another kind (no semantic label)
HasSemantic(l, n) == n # 3

\* semantic_label of a node: the layers label node 1 differently from node 2,
\* and L2 labels its nodes in the opposite way
SemanticLabel(l, n) == IF l = "L1" THEN (IF n = 1 THEN "chair" ELSE "table")
                       ELSE (IF n = 1 THEN "table" ELSE "chair")

\* SceneGraphLayer::getPosition of a node the layer holds
Position(l, n) == <<l, n>>

\* what a position lookup yields for a node the layer no longer holds, when
\* the lookup does not raise
StalePosition == <<"stale">>

\* gtsam::Pose3() of a default-constructed LayerRegistrationSolution
IdentityPose == <<"identity">>

\* gtsam::Pose3(gtsam::Rot3(result.rotation), result.translation)
Pose3(result) == <<"pose", result.rotation, result.translation>>

\* a slip: the early exits hand back a pose other than the default one
InvalidSolutionWithPose ==
  [valid |-> FALSE, dest_T_src |-> <<"pose", "R", "t">>, inliers |-> <<>>]

\* LayerRegistrationSolution{}: the default-constructed value
InvalidSolution == [valid |-> FALSE, dest_T_src |-> IdentityPose, inliers |-> <<>>]

VARIABLES
  layerNodes,       \* layer -> the node ids the layer holds
  mutexOwner,       \* mutex -> the thread holding it, or NoOwner
  solver,           \* the teaser::RobustRegistrationSolver shared by the calls
  pc,               \* thread -> position in registerDsgLayer
  config,           \* thread -> the LayerRegistrationConfig argument
  problem,          \* thread -> the LayerRegistrationProblem argument
  src,              \* thread -> the src layer argument
  func,             \* thread -> the correspondence_func argument
  correspondences,  \* thread -> the local vector of pairs
  src_points,       \* thread -> columns of the local matrix src_points
  dest_points,      \* thread -> columns of the local matrix dest_points
  result,           \* thread -> the teaser::RegistrationSolution of solve
  solution,         \* thread -> the returned LayerRegistrationSolution
  observed,         \* thread -> what the call did (solver calls, unlocked reads)
  updater,          \* the updater thread: deletions done
  nodelet           \* the MaskNodelet: its members and what it published

\* the variables of the registration calls
registrationVars == <<layerNodes, mutexOwner, solver, pc, config, problem, src,
                      func, correspondences, src_points, dest_points, result,
                      solution, observed, updater>>

vars == <<layerNodes, mutexOwner, solver, pc, config, problem, src, func,
          correspondences, src_points, dest_points, result, solution,
          observed, updater, nodelet>>

\* ------------------------------------------------------------ input sets
\* the src_nodes / dest_nodes lists tried (std::list<NodeId>, in list order)
NodeLists == {<<>>, <<1>>, <<2, 1>>, <<2, 3>>}

\* the layer contents tried by Spec: all nodes held, or one node deleted
LayerFixtures == {[l \in Layers |-> NodeIds],
                  [l \in Layers |-> IF l = "L1" THEN NodeIds \ {2} ELSE NodeIds],
                  [l \in Layers |-> IF l = "L2" THEN NodeIds \ {1} ELSE NodeIds]}

Thresholds == 0..MaxThreshold

\* LayerRegistrationConfig: the two thresholds (the logging fields do not
\* reach registerDsgLayer's control flow)
Configs == [min_correspondences : Thresholds, min_inliers : Thresholds]

\* LayerRegistrationProblem<std::list<NodeId>> with its mutexes left nullptr
Problems ==
  [src_nodes : NodeLists, dest_nodes : NodeLists,
   dest_layer : {Null, "L2"},
   src_mutex : {Null}, dest_mutex : {Null},
   min_correspondences : {0, MaxThreshold}, min_inliers : {0, MaxThreshold}]

\* the problems of the concurrent calls: both mutexes supplied, each the
\* mutex of the layer it guards; dest_layer nullptr registers src with itself
ConcProblems(srcLayer) ==
  {[src_nodes |-> <<1>>, dest_nodes |-> <<1>>,
    dest_layer |-> d,
    src_mutex |-> MutexOf(srcLayer),
    dest_mutex |-> MutexOf(IF d = Null THEN srcLayer ELSE d),
    min_correspondences |-> 1, min_inliers |-> 1] : d \in {Null} \cup Layers}

\* the problems of the calls made in a row: both mutexes supplied, L1
\* registered against L2; node 3 has no semantic attributes
ReuseProblems ==
  [src_nodes : {<<1>>, <<2, 1>>}, dest_nodes : {<<1>>, <<3>>},
   dest_layer : {"L2"},
   src_mutex : {MutexOf("L1")}, dest_mutex : {MutexOf("L2")},
   min_correspondences : {1}, min_inliers : {1}]

\* the configurations of the calls made in a row
ReuseConfigs == [min_correspondences : {1}, min_inliers : {1, 2}]

\* registerDsgLayerPairwise / registerDsgLayerSemantic
Funcs == {"pairwise", "semantic"}

\* a call that has not been made
NoCall == [min_correspondences |-> 0, min_inliers |-> 0]
NoProblem == [src_nodes |-> <<>>, dest_nodes |-> <<>>, dest_layer |-> Null,
              src_mutex |-> Null, dest_mutex |-> Null,
              min_correspondences |-> 0, min_inliers |-> 0]

NoResult == [valid |-> FALSE, rotation |-> Null, translation |-> Null]
NoObserved == [resets |-> 0, solves |-> 0, inlierReads |-> 0, solveCols |-> Null,
               unguardedReads |-> 0, staleLookups |-> 0, locksTaken |-> 0,
               calls |-> 0]
FreshSolver == [state |-> "fresh", cols |-> Null, inliers |-> <<>>]
IdleUpdater == [deleted |-> 0]

\* --------------------------------------------------- MaskNodelet, inputs
\* An image (cv::Mat) is the sequence of its pixels, the empty Mat is <<>>.
\* the private parameter mask_path: not set, or the path of a file
MaskParams == {Null, "mask.png", "half.png", "dot.png", "unreadable.png"}

\* cv::imread(mask_path, cv::IMREAD_GRAYSCALE): the pixels of the file, the
\* empty Mat for a file that cannot be read
Imread(mask_path) ==
  IF mask_path = "mask.png" THEN <<255, 255>>
  ELSE IF mask_path = "half.png" THEN <<0, 255>>
  ELSE IF mask_path = "dot.png" THEN <<255>>
  ELSE <<>>

\* the encodings cv_bridge converts
Encodings == {"16UC1", "32FC1"}

PixelValues == {0, 6}
Images == {<<a>> : a \in PixelValues} \cup {<<a, b>> : a, b \in PixelValues}

\* sensor_msgs::Image: header (its sequence number), encoding, data
Messages == [header : {1, 2}, encoding : Encodings \cup {"bogus"}, image : Images]

NoImage == [set |-> FALSE, header |-> 0, encoding |-> Null, image |-> <<>>]
NoMessage == [header |-> 0, encoding |-> Null, image |-> <<>>]

\* the nodelet after construction: no transport, empty mask, null result
NewNodelet == [state |-> "constructed", mask_ |-> <<>>, transport_ |-> FALSE,
               image_sub_ |-> FALSE, image_pub_ |-> FALSE,
               result_image_ |-> NoImage,
               callbacks |-> 0, published |-> 0, lastPublished |-> NoMessage]

\* ----------------------------------------------------- MaskNodelet, pure
\* cv_bridge::toCvShare(msg): raises cv_bridge::Exception for an encoding it
\* does not know
ToCvShare(msg) ==
  [ok |-> msg.encoding \in Encodings, header |-> msg.header,
   encoding |-> msg.encoding, image |-> msg.image]

\* cv::Mat::setTo(0)
SetToZero(image) == [i \in 1..Len(image) |-> 0]

\* a | b on the pixel values
RECURSIVE BitOr(_, _)
BitOr(a, b) ==
  IF a = 0 THEN b
  ELSE IF b = 0 THEN a
  ELSE 2 * BitOr(a \div 2, b \div 2) + (IF a % 2 = 1 \/ b % 2 = 1 THEN 1 ELSE 0)

\* a slip: the mask is not applied
BitwiseOrUnmasked(src1, src2, dst, mask) ==
  [threw |-> Len(mask) # Len(src1),
   image |-> IF Len(mask) # Len(src1) THEN dst
             ELSE [i \in 1..Len(src1) |-> BitOr(src1[i], src2[i])]]

\* cv::bitwise_or(src1, src2, dst, mask): raises cv::Exception when the mask
\* has not the size of the input; else dst (made anew, zeroed, when it has
\* not the input's size) gets src1 | src2 where the mask is not zero
BitwiseOr(src1, src2, dst, mask) ==
  [threw |-> Len(mask) # Len(src1),
   image |-> IF Len(mask) # Len(src1) THEN dst
             ELSE LET base == IF Len(dst) = Len(src1) THEN dst
                              ELSE SetToZero(src1)
                  IN [i \in 1..Len(src1) |->
                        IF mask[i] # 0 THEN BitOr(src1[i], src2[i]) ELSE base[i]]]

\* cv_bridge::CvImage::toImageMsg
ToImageMsg(cv_image) ==
  [header |-> cv_image.header, encoding |-> cv_image.encoding,
   image |-> cv_image.image]

\* ------------------------------------------------- registerDsgLayer, pure
\* a slip: the destination is always looked up in the source layer
DestLayerAlwaysSrc(t) == src[t]

\* const SceneGraphLayer& dest = problem.dest_layer ? *problem.dest_layer : src
DestLayer(t) == IF problem[t].dest_layer # Null THEN problem[t].dest_layer ELSE src[t]

\* a slip: the optional is used without testing it
GetNodeUnchecked(l, n) == [found |-> TRUE, layer |-> l, id |-> n]

\* SceneGraphLayer::getNode: an optional, empty for an id the layer lacks
GetNode(l, n) == [found |-> n \in layerNodes[l], layer |-> l, id |-> n]

\* a slip: the semantic predicate accepts the pairs whose labels differ
CorrespondenceFuncNegated(f, src_node, dest_node) ==
  IF f = "pairwise" THEN "true"
  ELSE IF ~HasSemantic(src_node.layer, src_node.id) THEN "throw"
  ELSE IF ~HasSemantic(dest_node.layer, dest_node.id) THEN "throw"
  ELSE IF SemanticLabel(src_node.layer, src_node.id)
            # SemanticLabel(dest_node.layer, dest_node.id) THEN "true"
  ELSE "false"

\* correspondence_func(src_node, dest_node): "true" / "false", or "throw" when
\* attributes<SemanticNodeAttributes>() is asked of a node of another kind
CorrespondenceFunc(f, src_node, dest_node) ==
  IF f = "pairwise" THEN "true"
  ELSE IF ~HasSemantic(src_node.layer, src_node.id) THEN "throw"
  ELSE IF ~HasSemantic(dest_node.layer, dest_node.id) THEN "throw"
  ELSE IF SemanticLabel(src_node.layer, src_node.id)
            = SemanticLabel(dest_node.layer, dest_node.id) THEN "true"
  ELSE "false"

\* the inner loop over problem.dest_nodes, from position j, for one src node
RECURSIVE InnerLoop(_, _, _, _, _, _)
InnerLoop(f, src_node, destL, dest_nodes, j, acc) ==
  IF j > Len(dest_nodes) THEN [threw |-> FALSE, list |-> acc]
  ELSE LET dest_id == dest_nodes[j]
           dest_node_opt == GetNode(destL, dest_id)
       IN IF ~dest_node_opt.found
          THEN InnerLoop(f, src_node, destL, dest_nodes, j + 1, acc)
          ELSE LET m == CorrespondenceFunc(f, src_node, dest_node_opt)
               IN IF m = "throw" THEN [threw |-> TRUE, list |-> acc]
                  ELSE IF m = "true"
                  THEN InnerLoop(f, src_node, destL, dest_nodes, j + 1,
                                 Append(acc, <<src_node.id, dest_id>>))
                  ELSE InnerLoop(f, src_node, destL, dest_nodes, j + 1, acc)

\* the outer loop over problem.src_nodes, from position i
RECURSIVE MatchLoop(_, _, _, _, _, _, _)
MatchLoop(f, srcL, destL, src_nodes, dest_nodes, i, acc) ==
  IF i > Len(src_nodes) THEN [threw |-> FALSE, list |-> acc]
  ELSE LET src_node_opt == GetNode(srcL, src_nodes[i])
       IN IF ~src_node_opt.found
          THEN MatchLoop(f, srcL, destL, src_nodes, dest_nodes, i + 1, acc)
          ELSE LET r == InnerLoop(f, src_node_opt, destL, dest_nodes, 1, acc)
               IN IF r.threw THEN r
                  ELSE MatchLoop(f, srcL, destL, src_nodes, dest_nodes, i + 1, r.list)

\* CHECK_LT(static_cast<size_t>(index), correspondences.size()): the cast
\* sends a negative int to a value above any vector size, so the check
\* passes exactly for 0 <= index < size
CheckLT(index, size) == index >= 0 /\ index < size

\* a slip: the pair counted from the end of the list
AtFromEnd(corr, index) == corr[Len(corr) - index]

\* correspondences.at(index): indices are 0-based in the code, sequences
\* 1-based here
At(corr, index) == corr[index + 1]

\* a slip: an index out of range is dropped and the loop goes on
RECURSIVE InlierLoopSkipping(_, _, _, _)
InlierLoopSkipping(inliers, corr, k, acc) ==
  IF k > Len(inliers) THEN [aborted |-> FALSE, list |-> acc]
  ELSE IF ~CheckLT(inliers[k], Len(corr))
       THEN InlierLoopSkipping(inliers, corr, k + 1, acc)
       ELSE InlierLoopSkipping(inliers, corr, k + 1, Append(acc, At(corr, inliers[k])))

\* the loop over the solver's inliers: abort on a failed CHECK_LT, else
\* push_back correspondences.at(index)
RECURSIVE InlierLoop(_, _, _, _)
InlierLoop(inliers, corr, k, acc) ==
  IF k > Len(inliers) THEN [aborted |-> FALSE, list |-> acc]
  ELSE IF ~CheckLT(inliers[k], Len(corr))
       THEN [aborted |-> TRUE, list |-> acc]
       ELSE InlierLoop(inliers, corr, k + 1, Append(acc, At(corr, inliers[k])))

\* all sequences over S of length at most n
RECURSIVE SeqsUpTo(_, _)
SeqsUpTo(S, n) ==
  IF n = 0 THEN {<<>>}
  ELSE LET shorter == SeqsUpTo(S, n - 1)
       IN shorter \cup {Append(q, x) : q \in {r \in shorter : Len(r) = n - 1}, x \in S}

\* what teaser's solve can report for matrices of n columns: invalid, or
\* valid with any max clique of at most MaxInliers indices, in range or not
SolverOutcomes(n) ==
  {[valid |-> FALSE, inliers |-> <<>>]}
    \cup {[valid |-> TRUE, inliers |-> q] : q \in SeqsUpTo(-1..n, MaxInliers)}

\* a slip: a list one short of the threshold passes
TooFewCorrespondencesOffByOne(n, cfg) == n + 1 < cfg.min_correspondences

\* correspondences.size() < config.min_correspondences
TooFewCorrespondences(n, cfg) == n < cfg.min_correspondences

\* a slip: a clique one short of the threshold passes
TooFewInliersOffByOne(n, cfg) == n + 1 < cfg.min_inliers

\* a slip: a clique of exactly min_inliers is rejected
TooFewInliersInclusive(n, cfg) == n <= cfg.min_inliers

\* inliers.size() < config.min_inliers
TooFewInliers(n, cfg) == n < cfg.min_inliers

\* ------------------------------------------------------------- the state
\* CHECK_LT aborts the whole process: no thread takes another step
Alive == \A t \in Threads : pc[t] # "aborted"

\* thread t reads a layer whose supplied mutex m it does not hold
Unguarded(t, m) == m # Null /\ mutexOwner[m] # t

Bump(t, field, by) ==
  observed' = [observed EXCEPT ![t][field] = observed[t][field] + by]

Goto(t, where) == pc' = [pc EXCEPT ![t] = where]

\* return {}; and the other returns
Return(t, value) ==
  /\ solution' = [solution EXCEPT ![t] = value]
  /\ Goto(t, "done")

\* std::mutex::lock through a pointer that may be nullptr. A free mutex is
\* taken; a mutex held by another thread blocks the caller; locking a mutex
\* the caller already holds is undefined behaviour, which the builds answer
\* by blocking for ever or by raising std::system_error.
Lock(t, m, next) ==
  IF m = Null
  THEN Goto(t, next) /\ UNCHANGED <<mutexOwner, observed>>
  ELSE IF mutexOwner[m] = NoOwner
  THEN /\ mutexOwner' = [mutexOwner EXCEPT ![m] = t]
       /\ Goto(t, next)
       /\ Bump(t, "locksTaken", 1)
  ELSE IF mutexOwner[m] = t
  THEN /\ \E outcome \in {"deadlocked", "threw"} : Goto(t, outcome)
       /\ UNCHANGED <<mutexOwner, observed>>
  ELSE FALSE

\* std::mutex::unlock through a pointer that may be nullptr
Unlock(t, m, next) ==
  /\ mutexOwner' = IF m = Null THEN mutexOwner ELSE [mutexOwner EXCEPT ![m] = NoOwner]
  /\ Goto(t, next)

\* ------------------------------------------- registerDsgLayer, step by step
\* if (problem.src_mutex) problem.src_mutex->lock();
LockSrc(t) ==
  /\ Alive /\ pc[t] = "lock_src"
  /\ Lock(t, problem[t].src_mutex, "lock_dest")
  /\ UNCHANGED <<layerNodes, solver, config, problem, src, func, correspondences,
                 src_points, dest_points, result, solution, updater, nodelet>>

\* if (problem.dest_mutex) problem.dest_mutex->lock();
LockDest(t) ==
  /\ Alive /\ pc[t] = "lock_dest"
  /\ Lock(t, problem[t].dest_mutex, "match")
  /\ UNCHANGED <<layerNodes, solver, config, problem, src, func, correspondences,
                 src_points, dest_points, result, solution, updater, nodelet>>

\* the two nested loops that fill correspondences; a raising predicate
\* leaves the function there and then
Match(t) ==
  /\ Alive /\ pc[t] = "match"
  /\ LET r == MatchLoop(func[t], src[t], DestLayer(t), problem[t].src_nodes,
                        problem[t].dest_nodes, 1, <<>>)
         readsSrc == Len(problem[t].src_nodes) > 0
         readsDest == /\ Len(problem[t].dest_nodes) > 0
                      /\ \E i \in 1..Len(problem[t].src_nodes) :
                            problem[t].src_nodes[i] \in layerNodes[src[t]]
     IN /\ IF r.threw
           THEN Goto(t, "threw") /\ UNCHANGED correspondences
           ELSE /\ Goto(t, "unlock_src")
                /\ correspondences' = [correspondences EXCEPT ![t] = r.list]
        /\ Bump(t, "unguardedReads",
                (IF readsSrc /\ Unguarded(t, problem[t].src_mutex) THEN 1 ELSE 0)
                + (IF readsDest /\ Unguarded(t, problem[t].dest_mutex) THEN 1 ELSE 0))
  /\ UNCHANGED <<layerNodes, mutexOwner, solver, config, problem, src, func,
                 src_points, dest_points, result, solution, updater, nodelet>>

\* if (problem.src_mutex) problem.src_mutex->unlock();
UnlockSrc(t) ==
  /\ Alive /\ pc[t] = "unlock_src"
  /\ Unlock(t, problem[t].src_mutex, "unlock_dest")
  /\ UNCHANGED <<layerNodes, solver, config, problem, src, func, correspondences,
                 src_points, dest_points, result, solution, observed, updater, nodelet>>

\* a slip: the destination mutex is kept across the solve
UnlockDestSkipped(t) ==
  /\ Alive /\ pc[t] = "unlock_dest"
  /\ Goto(t, "points")
  /\ UNCHANGED <<layerNodes, mutexOwner, solver, config, problem, src, func,
                 correspondences, src_points, dest_points, result, solution,
                 observed, updater, nodelet>>

\* if (problem.dest_mutex) problem.dest_mutex->unlock();
UnlockDest(t) ==
  /\ Alive /\ pc[t] = "unlock_dest"
  /\ Unlock(t, problem[t].dest_mutex, "points")
  /\ UNCHANGED <<layerNodes, solver, config, problem, src, func, correspondences,
                 src_points, dest_points, result, solution, observed, updater, nodelet>>

\* one turn of the loop that fills src_points / dest_points: getPosition of
\* both nodes of correspondences[i]. For a node the layer no longer holds,
\* the lookup raises or yields a position that is not the node's.
Points(t) ==
  /\ Alive /\ pc[t] = "points"
  /\ Len(src_points[t]) < Len(correspondences[t])
  /\ LET correspondence == correspondences[t][Len(src_points[t]) + 1]
         srcGone == correspondence[1] \notin layerNodes[src[t]]
         destGone == correspondence[2] \notin layerNodes[DestLayer(t)]
         srcCol == IF srcGone THEN StalePosition
                   ELSE Position(src[t], correspondence[1])
         destCol == IF destGone THEN StalePosition
                    ELSE Position(DestLayer(t), correspondence[2])
     IN /\ \E outcome \in IF srcGone \/ destGone THEN {"raise", "go on"} ELSE {"go on"} :
             IF outcome = "raise"
             THEN Goto(t, "threw") /\ UNCHANGED <<src_points, dest_points>>
             ELSE /\ src_points' = [src_points EXCEPT ![t] = Append(@, srcCol)]
                  /\ dest_points' = [dest_points EXCEPT ![t] = Append(@, destCol)]
                  /\ UNCHANGED pc
        /\ observed' = [observed EXCEPT
             ![t].unguardedReads = @
                + (IF Unguarded(t, problem[t].src_mutex) THEN 1 ELSE 0)
                + (IF Unguarded(t, problem[t].dest_mutex) THEN 1 ELSE 0),
             ![t].staleLookups = @ + (IF srcGone THEN 1 ELSE 0)
                                   + (IF destGone THEN 1 ELSE 0)]
  /\ UNCHANGED <<layerNodes, mutexOwner, solver, config, problem, src, func,
                 correspondences, result, solution, updater, nodelet>>

\* the end of that loop and the first threshold:
\* if (correspondences.size() < config.min_correspondences) return {};
CheckCorrespondences(t) ==
  /\ Alive /\ pc[t] = "points"
  /\ Len(src_points[t]) = Len(correspondences[t])
  /\ IF TooFewCorrespondences(Len(correspondences[t]), config[t])
     THEN Return(t, InvalidSolution)
     ELSE Goto(t, "reset") /\ UNCHANGED solution
  /\ UNCHANGED <<layerNodes, mutexOwner, solver, config, problem, src, func,
                 correspondences, src_points, dest_points, result, observed, updater, nodelet>>

\* a slip: the solver is used as the last call left it
ResetSkipped(t) ==
  /\ Alive /\ pc[t] = "reset"
  /\ Goto(t, "solve")
  /\ UNCHANGED <<layerNodes, mutexOwner, solver, config, problem, src, func,
                 correspondences, src_points, dest_points, result, solution,
                 observed, updater, nodelet>>

\* auto params = solver.getParams(); solver.reset(params);
Reset(t) ==
  /\ Alive /\ pc[t] = "reset"
  /\ solver' = [state |-> "reset", cols |-> Null, inliers |-> <<>>]
  /\ Bump(t, "resets", 1)
  /\ Goto(t, "solve")
  /\ UNCHANGED <<layerNodes, mutexOwner, config, problem, src, func, correspondences,
                 src_points, dest_points, result, solution, updater, nodelet>>

\* result = solver.solve(src_points, dest_points); if (!result.valid) return {};
Solve(t) ==
  /\ Alive /\ pc[t] = "solve"
  /\ \E outcome \in SolverOutcomes(Len(src_points[t])) :
       /\ solver' = [state |-> "solved", cols |-> Len(src_points[t]),
                     inliers |-> outcome.inliers]
       /\ result' = [result EXCEPT ![t] = [valid |-> outcome.valid,
                                           rotation |-> "R", translation |-> "t"]]
       /\ IF ~outcome.valid
          THEN Return(t, InvalidSolution)
          ELSE Goto(t, "get_inliers") /\ UNCHANGED solution
  /\ observed' = [observed EXCEPT ![t].solves = @ + 1,
                                  ![t].solveCols = Len(src_points[t])]
  /\ UNCHANGED <<layerNodes, mutexOwner, config, problem, src, func, correspondences,
                 src_points, dest_points, updater, nodelet>>

\* auto inliers = solver.getInlierMaxClique(); the second threshold; the loop
\* that maps the indices back to pairs; the valid return
GetInliers(t) ==
  /\ Alive /\ pc[t] = "get_inliers"
  /\ LET inliers == solver.inliers
         r == InlierLoop(inliers, correspondences[t], 1, <<>>)
     IN IF TooFewInliers(Len(inliers), config[t])
        THEN Return(t, InvalidSolution)
        ELSE IF r.aborted
        THEN Goto(t, "aborted") /\ UNCHANGED solution
        ELSE Return(t, [valid |-> TRUE, dest_T_src |-> Pose3(result[t]),
                        inliers |-> r.list])
  /\ Bump(t, "inlierReads", 1)
  /\ UNCHANGED <<layerNodes, mutexOwner, solver, config, problem, src, func,
                 correspondences, src_points, dest_points, result, updater, nodelet>>

Register(t) ==
  \/ LockSrc(t)
  \/ LockDest(t)
  \/ Match(t)
  \/ UnlockSrc(t)
  \/ UnlockDest(t)
  \/ Points(t)
  \/ CheckCorrespondences(t)
  \/ Reset(t)
  \/ Solve(t)
  \/ GetInliers(t)

\* ------------------------------------------------- the graph's updater
\* The updater thread removes one node of a layer inside a critical section
\* on that layer's mutex (lock, erase, unlock): taken as one step, which it
\* can take only while no call holds the mutex.
UpdaterDelete ==
  /\ Alive /\ updater.deleted < MaxDeletes
  /\ \E l \in Layers :
       /\ mutexOwner[MutexOf(l)] = NoOwner
       /\ \E n \in layerNodes[l] :
            /\ layerNodes' = [layerNodes EXCEPT ![l] = @ \ {n}]
            /\ updater' = [deleted |-> updater.deleted + 1]
  /\ UNCHANGED <<mutexOwner, solver, pc, config, problem, src, func, correspondences,
                 src_points, dest_points, result, solution, observed, nodelet>>

\* ------------------------------------------------------ the MaskNodelet
\* MaskNodelet::onInit: raises when mask_path is not set or the mask read
\* is empty; only then makes the transport, subscribes and advertises
OnInit ==
  /\ nodelet.state = "constructed"
  /\ \E mask_path \in MaskParams :
       IF mask_path = Null
       THEN nodelet' = [nodelet EXCEPT !.state = "failed"]
       ELSE IF Imread(mask_path) = <<>>
       THEN nodelet' = [nodelet EXCEPT !.state = "failed",
                                       !.mask_ = Imread(mask_path)]
       ELSE nodelet' = [nodelet EXCEPT !.state = "running",
                                       !.mask_ = Imread(mask_path),
                                       !.transport_ = TRUE,
                                       !.image_sub_ = TRUE,
                                       !.image_pub_ = TRUE]
  /\ UNCHANGED registrationVars

\* MaskNodelet::callback(msg), run by the subscription for each image. An
\* exception of cv::bitwise_or is not caught and leaves the callback.
Callback(msg) ==
  /\ nodelet.state = "running" /\ nodelet.image_sub_
  /\ nodelet.callbacks < MaxCallbacks
  /\ LET img_ptr == ToCvShare(msg)
         made == IF nodelet.result_image_.set
                 THEN nodelet.result_image_
                 ELSE [set |-> TRUE, header |-> 0, encoding |-> img_ptr.encoding,
                       image |-> img_ptr.image]
         zeroed == [made EXCEPT !.image = SetToZero(made.image),
                                !.header = img_ptr.header]
         r == BitwiseOr(img_ptr.image, img_ptr.image, zeroed.image, nodelet.mask_)
         filled == [zeroed EXCEPT !.image = r.image]
     IN IF ~img_ptr.ok
        THEN nodelet' = [nodelet EXCEPT !.callbacks = @ + 1]
        ELSE IF r.threw
        THEN nodelet' = [nodelet EXCEPT !.callbacks = @ + 1,
                                        !.state = "threw",
                                        !.result_image_ = zeroed]
        ELSE nodelet' = [nodelet EXCEPT !.callbacks = @ + 1,
                                        !.result_image_ = filled,
                                        !.published = @ + 1,
                                        !.lastPublished = ToImageMsg(filled)]
  /\ UNCHANGED registrationVars

\* ------------------------------------------------------ specifications
Only(t, value, none) == [u \in Threads |-> IF u = t THEN value ELSE none]

\* one call, by thread A, on layer L1
Init ==
  /\ layerNodes \in LayerFixtures
  /\ mutexOwner = [m \in Layers |-> NoOwner]
  /\ solver = FreshSolver
  /\ pc = Only("A", "lock_src", "idle")
  /\ \E c \in Configs : config = Only("A", c, NoCall)
  /\ \E p \in Problems : problem = Only("A", p, NoProblem)
  /\ src = [t \in Threads |-> "L1"]
  /\ \E f \in Funcs : func = Only("A", f, "pairwise")
  /\ correspondences = [t \in Threads |-> <<>>]
  /\ src_points = [t \in Threads |-> <<>>]
  /\ dest_points = [t \in Threads |-> <<>>]
  /\ result = [t \in Threads |-> NoResult]
  /\ solution = [t \in Threads |-> InvalidSolution]
  /\ observed = [t \in Threads |-> NoObserved]
  /\ updater = IdleUpdater
  /\ nodelet = NewNodelet

Next == Register("A")

Spec == Init /\ [][Next]_vars

\* two calls, by threads A and B, each on a layer of its own choice, and
\* the updater
InitConc ==
  /\ layerNodes = [l \in Layers |-> NodeIds]
  /\ mutexOwner = [m \in Layers |-> NoOwner]
  /\ solver = FreshSolver
  /\ pc = [t \in Threads |-> "lock_src"]
  /\ config = [t \in Threads |-> [min_correspondences |-> 1, min_inliers |-> 1]]
  /\ src \in [Threads -> Layers]
  /\ problem \in [Threads -> UNION {ConcProblems(l) : l \in Layers}]
  /\ \A t \in Threads : problem[t] \in ConcProblems(src[t])
  /\ func = [t \in Threads |-> "pairwise"]
  /\ correspondences = [t \in Threads |-> <<>>]
  /\ src_points = [t \in Threads |-> <<>>]
  /\ dest_points = [t \in Threads |-> <<>>]
  /\ result = [t \in Threads |-> NoResult]
  /\ solution = [t \in Threads |-> InvalidSolution]
  /\ observed = [t \in Threads |-> NoObserved]
  /\ updater = IdleUpdater
  /\ nodelet = NewNodelet

NextConc ==
  \/ \E t \in Threads : Register(t)
  \/ UpdaterDelete

SpecConc == InitConc /\ [][NextConc]_vars

\* calls made one after the other by thread A with one solver: when a call
\* has returned, the caller makes the next one with arguments of its choice.
\* The locals of the new call start empty; the solver is the one the last
\* call left behind.
CallAgain(t) ==
  /\ Alive /\ pc[t] = "done"
  /\ observed[t].calls + 1 < MaxCalls
  /\ \E c \in ReuseConfigs : config' = [config EXCEPT ![t] = c]
  /\ \E p \in ReuseProblems : problem' = [problem EXCEPT ![t] = p]
  /\ \E f \in Funcs : func' = [func EXCEPT ![t] = f]
  /\ correspondences' = [correspondences EXCEPT ![t] = <<>>]
  /\ src_points' = [src_points EXCEPT ![t] = <<>>]
  /\ dest_points' = [dest_points EXCEPT ![t] = <<>>]
  /\ result' = [result EXCEPT ![t] = NoResult]
  /\ solution' = [solution EXCEPT ![t] = InvalidSolution]
  /\ observed' = [observed EXCEPT ![t] =
                    [NoObserved EXCEPT !.calls = observed[t].calls + 1]]
  /\ Goto(t, "lock_src")
  /\ UNCHANGED <<layerNodes, mutexOwner, solver, src, updater, nodelet>>

InitReuse ==
  /\ layerNodes = [l \in Layers |-> NodeIds]
  /\ mutexOwner = [m \in Layers |-> NoOwner]
  /\ solver = FreshSolver
  /\ pc = Only("A", "lock_src", "idle")
  /\ \E c \in ReuseConfigs : config = Only("A", c, NoCall)
  /\ \E p \in ReuseProblems : problem = Only("A", p, NoProblem)
  /\ src = [t \in Threads |-> "L1"]
  /\ \E f \in Funcs : func = Only("A", f, "pairwise")
  /\ correspondences = [t \in Threads |-> <<>>]
  /\ src_points = [t \in Threads |-> <<>>]
  /\ dest_points = [t \in Threads |-> <<>>]
  /\ result = [t \in Threads |-> NoResult]
  /\ solution = [t \in Threads |-> InvalidSolution]
  /\ observed = [t \in Threads |-> NoObserved]
  /\ updater = IdleUpdater
  /\ nodelet = NewNodelet

NextReuse ==
  \/ Register("A")
  \/ CallAgain("A")

SpecReuse == InitReuse /\ [][NextReuse]_vars

\* the nodelet alone: no registration call is made
InitMask ==
  /\ layerNodes = [l \in Layers |-> NodeIds]
  /\ mutexOwner = [m \in Layers |-> NoOwner]
  /\ solver = FreshSolver
  /\ pc = [t \in Threads |-> "idle"]
  /\ config = [t \in Threads |-> NoCall]
  /\ problem = [t \in Threads |-> NoProblem]
  /\ src = [t \in Threads |-> "L1"]
  /\ func = [t \in Threads |-> "pairwise"]
  /\ correspondences = [t \in Threads |-> <<>>]
  /\ src_points = [t \in Threads |-> <<>>]
  /\ dest_points = [t \in Threads |-> <<>>]
  /\ result = [t \in Threads |-> NoResult]
  /\ solution = [t \in Threads |-> InvalidSolution]
  /\ observed = [t \in Threads |-> NoObserved]
  /\ updater = IdleUpdater
  /\ nodelet = NewNodelet

NextMask ==
  \/ OnInit
  \/ \E msg \in Messages : Callback(msg)

SpecMask == InitMask /\ [][NextMask]_vars

\* every thread that can take a step eventually takes one
FairConc ==
  /\ SpecConc
  /\ \A t \in Threads : WF_vars(Register(t))

\* ================================================================ claims
\* thread t holds mutex m
Holds(t, m) == m # Null /\ mutexOwner[m] = t

\* the call of t is over: it returned, or an exception left it
Ended(t) == pc[t] \in {"done", "threw"}

\* the call of t is past the matching loops
Matched(t) == pc[t] \in {"unlock_src", "unlock_dest", "points", "reset", "solve",
                         "get_inliers", "done", "aborted"}

\* the call of t has not used the solver
SolverUntouched(t) ==
  observed[t].resets = 0 /\ observed[t].solves = 0 /\ observed[t].inlierReads = 0

\* every index of q lies in [0, n)
InRange(q, n) == \A j \in 1..Len(q) : 0 <= q[j] /\ q[j] < n

\* A registers L1 onto L2 while B registers L2 onto L1
OppositeDirections ==
  /\ problem["A"].src_mutex = "L1" /\ problem["A"].dest_mutex = "L2"
  /\ problem["B"].src_mutex = "L2" /\ problem["B"].dest_mutex = "L1"

\* C1: two calls on the same pair of layers in opposite directions never
\* deadlock: under fair scheduling both calls end (or the process aborts)
\* and no call is left holding a mutex.
C1_OppositeCallsFinish ==
  OppositeDirections =>
    <>(/\ ~Alive \/ \A t \in Threads : Ended(t)
       /\ \A t \in Threads, m \in Layers : ~Holds(t, m))

\* C2: with both mutexes supplied, every read of node data (getNode while
\* matching, getPosition while filling the point matrices) is made while the
\* call holds the mutex of the layer read, so that no position is looked up
\* for a node the updater removed after it was matched.
C2_ReadsUnderMutex ==
  \A t \in Threads :
    (problem[t].src_mutex # Null /\ problem[t].dest_mutex # Null) =>
      (observed[t].unguardedReads = 0 /\ observed[t].staleLookups = 0)

\* C3: when the solver is reset and when solve is invoked, the call holds
\* neither src_mutex nor dest_mutex.
C3_SolverStepsUnlocked ==
  \A t \in Threads :
    pc[t] \in {"reset", "solve", "get_inliers"} =>
      (~Holds(t, problem[t].src_mutex) /\ ~Holds(t, problem[t].dest_mutex))

\* a call that took both of its mutexes stands before solver.solve
C3_Witness ==
  \E t \in Threads :
    /\ pc[t] = "solve"
    /\ observed[t].locksTaken = 2
    /\ problem[t].src_mutex # problem[t].dest_mutex

\* src_mutex and dest_mutex of t are one and the same mutex
SameMutex(t) ==
  problem[t].src_mutex # Null /\ problem[t].src_mutex = problem[t].dest_mutex

\* C4: when src_mutex and dest_mutex are the same mutex, the call takes it
\* once and does not block on itself or fail: it never ends up waiting
\* for ever on, or raising from, a second lock of the mutex it holds.
C4_SameMutexLockedOnce ==
  \A t \in Threads :
    SameMutex(t) => (pc[t] \notin {"deadlocked", "threw"} /\ observed[t].locksTaken <= 1)

\* C5: a returned solution is valid only if the correspondences reached
\* min_correspondences, the solver reported valid, and the solver's inliers
\* reached min_inliers.
C5_ValidOnlyAboveThresholds ==
  \A t \in Threads :
    (pc[t] = "done" /\ solution[t].valid) =>
      /\ Len(correspondences[t]) >= config[t].min_correspondences
      /\ result[t].valid
      /\ observed[t].solves = 1
      /\ Len(solver.inliers) >= config[t].min_inliers

\* a valid solution returned under thresholds that could have rejected it
C5_Witness ==
  /\ pc["A"] = "done" /\ solution["A"].valid
  /\ config["A"].min_correspondences = MaxThreshold
  /\ config["A"].min_inliers = MaxThreshold

\* C6: with fewer correspondences than min_correspondences the call returns
\* the invalid solution and never touches the solver (no reset, no solve,
\* no getInlierMaxClique).
C6_TooFewCorrespondencesSkipSolver ==
  \A t \in Threads :
    (Matched(t) /\ Len(correspondences[t]) < config[t].min_correspondences) =>
      /\ SolverUntouched(t)
      /\ solver = FreshSolver
      /\ pc[t] \notin {"reset", "solve", "get_inliers", "aborted"}
      /\ pc[t] = "done" => solution[t] = InvalidSolution

\* a call that matched some pairs, but too few, has returned
C6_Witness ==
  /\ pc["A"] = "done"
  /\ Len(correspondences["A"]) > 0
  /\ Len(correspondences["A"]) < config["A"].min_correspondences

\* C7: with enough correspondences and a solver that reports valid with k
\* in-range inlier indices, the call returns valid iff k >= min_inliers,
\* and the invalid solution otherwise.
C7_ValidIffEnoughInliers ==
  \A t \in Threads :
    (/\ pc[t] = "done" /\ observed[t].solves = 1 /\ result[t].valid
     /\ InRange(solver.inliers, Len(correspondences[t]))) =>
      /\ solution[t].valid <=> Len(solver.inliers) >= config[t].min_inliers
      /\ ~solution[t].valid => solution[t] = InvalidSolution

\* a valid return with exactly min_inliers inliers, min_inliers not zero
C7_Witness ==
  /\ pc["A"] = "done" /\ solution["A"].valid
  /\ config["A"].min_inliers > 0
  /\ Len(solver.inliers) = config["A"].min_inliers
  /\ InRange(solver.inliers, Len(correspondences["A"]))

\* C8: the thresholds of the registration problem are enforced: a call with
\* fewer correspondences than problem.min_correspondences, or fewer inliers
\* than problem.min_inliers, does not return a valid solution.
C8_ProblemThresholdsEnforced ==
  \A t \in Threads :
    (pc[t] = "done" /\ solution[t].valid) =>
      /\ Len(correspondences[t]) >= problem[t].min_correspondences
      /\ Len(solver.inliers) >= problem[t].min_inliers

\* C9: an empty correspondence list is never passed to the solver, whatever
\* the thresholds: a call that matched nothing returns the invalid solution
\* without solver.solve.
C9_EmptyListNeverSolved ==
  \A t \in Threads :
    (Matched(t) /\ Len(correspondences[t]) = 0) =>
      /\ observed[t].solves = 0
      /\ pc[t] \notin {"solve", "get_inliers"}
      /\ pc[t] = "done" => solution[t] = InvalidSolution

\* C10: a valid solution for in-range inlier indices i_1..i_k lists exactly
\* k pairs, the j-th being correspondences[i_j].
C10_InliersAreTheIndexedPairs ==
  \A t \in Threads :
    (pc[t] = "done" /\ solution[t].valid) =>
      /\ InRange(solver.inliers, Len(correspondences[t]))
      /\ Len(solution[t].inliers) = Len(solver.inliers)
      /\ \A j \in 1..Len(solver.inliers) :
           solution[t].inliers[j] = correspondences[t][solver.inliers[j] + 1]

\* a valid return whose inlier indices are out of order and name different pairs
C10_Witness ==
  /\ pc["A"] = "done" /\ solution["A"].valid
  /\ Len(solver.inliers) = 2
  /\ solver.inliers[1] > solver.inliers[2]
  /\ solution["A"].inliers[1] # solution["A"].inliers[2]

\* ------------------------------------------------------------ C11 .. C16
\* the call of t has run solver.solve, which reported valid
SolvedValid(t) == observed[t].solves = 1 /\ result[t].valid

\* C11: whenever the solver reports valid and its inlier list holds an index
\* that is not below correspondences.size() (or is negative), the call
\* aborts the process, however many indices were reported; it does not
\* return.
C11_OutOfRangeAlwaysAborts ==
  \A t \in Threads :
    (/\ pc[t] \in {"done", "aborted"} /\ SolvedValid(t)
     /\ ~InRange(solver.inliers, Len(correspondences[t]))) =>
      pc[t] = "aborted"

\* C11, amended: when the solver reports valid with at least min_inliers
\* indices, one of them out of range, the call aborts the process; with
\* fewer than min_inliers indices it returns the invalid solution without
\* looking at them. It never returns a valid solution for such a list.
C11_OutOfRangeAbortsOrRejects ==
  \A t \in Threads :
    (/\ pc[t] \in {"done", "aborted"} /\ SolvedValid(t)
     /\ ~InRange(solver.inliers, Len(correspondences[t]))) =>
      IF Len(solver.inliers) >= config[t].min_inliers
      THEN pc[t] = "aborted"
      ELSE /\ pc[t] = "done"
           /\ solution[t] = [valid |-> FALSE, dest_T_src |-> IdentityPose,
                             inliers |-> <<>>]

\* the process aborted on an index out of range that came after one in range
C11_Witness ==
  /\ pc["A"] = "aborted"
  /\ Len(solver.inliers) = 2
  /\ CheckLT(solver.inliers[1], Len(correspondences["A"]))
  /\ ~CheckLT(solver.inliers[2], Len(correspondences["A"]))

\* the ids of a list that the layer holds, in list order
PresentIn(l, list) == SelectSeq(list, LAMBDA n : n \in layerNodes[l])

\* the destination layer of the call of t, as the problem names it
NamedDest(t) == IF problem[t].dest_layer = Null THEN src[t] ELSE problem[t].dest_layer

\* the pairs of two lists in source-major order
SourceMajor(S, D) ==
  [k \in 1..(Len(S) * Len(D)) |->
     <<S[((k - 1) \div Len(D)) + 1], D[((k - 1) % Len(D)) + 1]>>]

\* the predicate of the call of t holds of the pair p
Compatible(t, p) ==
  \/ func[t] = "pairwise"
  \/ /\ HasSemantic(src[t], p[1]) /\ HasSemantic(NamedDest(t), p[2])
     /\ SemanticLabel(src[t], p[1]) = SemanticLabel(NamedDest(t), p[2])

\* C12: the correspondence list is exactly the pairs (s, d), s a src_nodes id
\* held by the source layer, d a dest_nodes id held by the destination
\* layer, predicate(s, d) true, in source-major order; with the pairwise
\* predicate its length is (present sources) x (present destinations), with
\* the semantic predicate it holds exactly the pairs of equal labels.
C12_CorrespondencesAreTheMatchingPairs ==
  \A t \in Threads :
    Matched(t) =>
      LET S == PresentIn(src[t], problem[t].src_nodes)
          D == PresentIn(NamedDest(t), problem[t].dest_nodes)
      IN /\ correspondences[t]
              = SelectSeq(SourceMajor(S, D), LAMBDA p : Compatible(t, p))
         /\ func[t] = "pairwise" => Len(correspondences[t]) = Len(S) * Len(D)

\* a semantic call that kept some pairs and rejected others
C12_Witness ==
  /\ Matched("A") /\ func["A"] = "semantic"
  /\ Len(correspondences["A"]) > 0
  /\ Len(correspondences["A"])
       < Len(PresentIn(src["A"], problem["A"].src_nodes))
           * Len(PresentIn(NamedDest("A"), problem["A"].dest_nodes))

\* C13: an id of src_nodes or dest_nodes that its layer does not hold is
\* skipped without error: no correspondence names it, and matching gives
\* what it gives for the lists without that id (the same list, or the same
\* raising predicate), hence the same solver inputs and solution.
C13_MissingIdsAreSkipped ==
  \A t \in Threads :
    LET without == MatchLoop(func[t], src[t], NamedDest(t),
                             PresentIn(src[t], problem[t].src_nodes),
                             PresentIn(NamedDest(t), problem[t].dest_nodes), 1, <<>>)
    IN /\ Matched(t) =>
            /\ ~without.threw /\ correspondences[t] = without.list
            /\ \A i \in 1..Len(correspondences[t]) :
                 /\ correspondences[t][i][1] \in layerNodes[src[t]]
                 /\ correspondences[t][i][2] \in layerNodes[NamedDest(t)]
       /\ pc[t] = "threw" => without.threw

\* a call whose lists name an id its layer lacks has matched other pairs
C13_Witness ==
  /\ Matched("A") /\ Len(correspondences["A"]) > 0
  /\ \/ \E i \in 1..Len(problem["A"].src_nodes) :
          problem["A"].src_nodes[i] \notin layerNodes[src["A"]]
     \/ \E i \in 1..Len(problem["A"].dest_nodes) :
          problem["A"].dest_nodes[i] \notin layerNodes[NamedDest("A")]

\* C14: every early exit (too few correspondences, solver invalid, too few
\* inliers) returns one and the same value: valid = false, the identity
\* transform, no inliers.
C14_EarlyExitsReturnTheSentinel ==
  \A t \in Threads :
    (pc[t] = "done" /\ ~solution[t].valid) =>
      /\ solution[t].dest_T_src = IdentityPose
      /\ solution[t].inliers = <<>>
      /\ solution[t] = [valid |-> FALSE, dest_T_src |-> IdentityPose, inliers |-> <<>>]

\* the exit for too few inliers, taken after a valid solve that reported some
C14_Witness ==
  /\ pc["A"] = "done" /\ ~solution["A"].valid
  /\ SolvedValid("A") /\ Len(solver.inliers) > 0
  /\ observed["A"].inlierReads = 1

\* C16: for N correspondences the two matrices handed to the solver have N
\* columns each; column i of the source matrix is the source layer's
\* position of correspondences[i].first, column i of the destination matrix
\* the position of correspondences[i].second in dest_layer, or in the source
\* layer when dest_layer is absent.
C16_ColumnsFollowCorrespondences ==
  \A t \in Threads :
    (pc[t] \in {"reset", "solve", "get_inliers"} \/ observed[t].solves > 0) =>
      /\ Len(src_points[t]) = Len(correspondences[t])
      /\ Len(dest_points[t]) = Len(correspondences[t])
      /\ observed[t].solves > 0 => observed[t].solveCols = Len(correspondences[t])
      /\ \A i \in 1..Len(correspondences[t]) :
           /\ src_points[t][i] = Position(src[t], correspondences[t][i][1])
           /\ dest_points[t][i] =
                Position(IF problem[t].dest_layer = Null THEN src[t]
                         ELSE problem[t].dest_layer, correspondences[t][i][2])

\* matrices of several columns, the destination read in a layer of its own,
\* stand before solver.solve
C16_Witness ==
  /\ pc["A"] = "solve" /\ problem["A"].dest_layer = "L2"
  /\ Len(correspondences["A"]) >= 2

\* ------------------------------------------------------ C15, C17, C18
\* C15: in every call of a sequence of calls that reuse one solver, solve
\* runs on the solver as the call's own reset left it, the call resets and
\* solves at most once, and the inliers are read after the call's own solve
\* (the solver then holds the clique of the matrices of this call), so a
\* valid result is made of this call's solve only.
C15_ResetBeforeEachSolve ==
  \A t \in Threads :
    /\ observed[t].resets <= 1 /\ observed[t].solves <= 1
    /\ observed[t].inlierReads <= 1
    /\ observed[t].solves <= observed[t].resets
    /\ observed[t].inlierReads <= observed[t].solves
    /\ pc[t] = "solve" =>
         /\ solver = [state |-> "reset", cols |-> Null, inliers |-> <<>>]
         /\ observed[t].resets = 1 /\ observed[t].solves = 0
    /\ pc[t] = "get_inliers" =>
         /\ solver.state = "solved" /\ solver.cols = Len(src_points[t])
         /\ observed[t].solves = 1 /\ observed[t].inlierReads = 0
    /\ (pc[t] = "done" /\ solution[t].valid) =>
         /\ observed[t].inlierReads = 1
         /\ solver.cols = Len(correspondences[t])
         /\ solution[t].inliers =
              InlierLoop(solver.inliers, correspondences[t], 1, <<>>).list

\* a later call of the sequence has solved and returned a valid solution
C15_Witness ==
  /\ observed["A"].calls >= 1
  /\ pc["A"] = "done" /\ solution["A"].valid
  /\ observed["A"].resets = 1 /\ observed["A"].solves = 1

\* C17: a call that has ended, by a return or by an exception of the
\* predicate, holds none of the mutexes.
C17_EndedCallsHoldNoMutex ==
  \A t \in Threads : Ended(t) => \A m \in Layers : mutexOwner[m] # t

\* C18: with two calls sharing the solver, no step is a reset or a solve by
\* one call while the other call stands between its solve and its
\* getInlierMaxClique.
C18_NoSolverStepBetweenSolveAndRead ==
  [][\A t \in Threads : \A u \in Threads \ {t} :
       pc[u] = "get_inliers" => ~(Reset(t) \/ Solve(t))]_vars

\* -------------------------------------------------------------- C19
\* the input image where the mask is not zero, zero elsewhere
Masked(image, mask) ==
  [i \in 1..Len(image) |-> IF mask[i] = 0 THEN 0 ELSE image[i]]

\* the nodelet is subscribed only with a non-empty mask, and not at all after
\* an onInit that raised
SubscribedWithMask ==
  /\ nodelet.image_sub_ => nodelet.mask_ # <<>>
  /\ nodelet.state = "failed" => ~nodelet.image_sub_ /\ ~nodelet.image_pub_

\* a callback whose conversion fails publishes nothing and leaves
\* result_image_ as it was
FailedConversionChangesNothing(msg) ==
  ~ToCvShare(msg).ok =>
    /\ nodelet'.published = nodelet.published
    /\ nodelet'.lastPublished = nodelet.lastPublished
    /\ nodelet'.result_image_ = nodelet.result_image_

\* C19, as claimed: the subscription exists only with a non-empty mask; a
\* callback publishes exactly one image when the input converts, and
\* publishes nothing and leaves result_image_ unchanged when it does not.
C19_CallbackPublishesOnce ==
  /\ []SubscribedWithMask
  /\ [][\A msg \in Messages : Callback(msg) =>
          /\ FailedConversionChangesNothing(msg)
          /\ ToCvShare(msg).ok => nodelet'.published = nodelet.published + 1]_vars

\* C19, amended: as claimed, but an input that converts is published (once,
\* masked, under its own header) only when it has the size of the mask; for
\* any other size cv::bitwise_or raises, the exception leaves the callback
\* and nothing is published.
C19_CallbackPublishesOnceIfSized ==
  /\ []SubscribedWithMask
  /\ [][\A msg \in Messages : Callback(msg) =>
          /\ FailedConversionChangesNothing(msg)
          /\ ToCvShare(msg).ok =>
               IF Len(msg.image) = Len(nodelet.mask_)
               THEN /\ nodelet'.published = nodelet.published + 1
                    /\ nodelet'.lastPublished.image = Masked(msg.image, nodelet.mask_)
                    /\ nodelet'.lastPublished.header = msg.header
                    /\ nodelet'.state = "running"
               ELSE /\ nodelet'.published = nodelet.published
                    /\ nodelet'.state = "threw"]_vars

\* one callback failed to convert and another published an image of which
\* the mask has blanked a pixel
C19_Witness ==
  /\ nodelet.state = "running"
  /\ nodelet.callbacks = 2 /\ nodelet.published = 1
  /\ nodelet.mask_ = <<0, 255>>
  /\ nodelet.lastPublished.image = <<0, 6>>
====
